---- MODULE Spec2Model ----
(***************************************************************************)
(* Cronbach's alpha (src/cronbach/cronbach.py).                            *)
(*                                                                         *)
(* cronbach_alpha is a recursive function: the alpha-if-item-deleted       *)
(* diagnostic calls cronbach_alpha on the table with one column removed.   *)
(* The model runs one top-level call as a stack of frames, one frame per   *)
(* active call of cronbach_alpha, each with its position (pc) and locals.  *)
(*                                                                         *)
(* Floating-point values are exact rationals <<numerator, denominator>>    *)
(* extended with the IEEE specials the code can produce: <<1,0>> is +inf,  *)
(* <<-1,0>> is -inf and <<0,0>> is NaN.  Rounding is not modelled.         *)
(***************************************************************************)
EXTENDS Integers, Sequences, FiniteSets, TLC

\* ------------------------------------------------------------------ bounds

\* Largest number of rows and of columns of the enumerated tables.
MaxRows == 2
MaxCols == 2

\* ------------------------------------------------- extended rational numbers

Abs(n) == IF n < 0 THEN -n ELSE n

Sign(n) == IF n < 0 THEN -1 ELSE IF n > 0 THEN 1 ELSE 0

RECURSIVE GCD(_, _)
GCD(a, b) == IF b = 0 THEN a ELSE GCD(b, a % b)

\* The canonical form of n/d: positive denominator, lowest terms; d = 0 gives
\* an infinity of n's sign, or NaN for 0/0.
Norm(n, d) ==
    IF d = 0 THEN <<Sign(n), 0>>
    ELSE LET g == GCD(Abs(n), Abs(d))
             s == IF d < 0 THEN -1 ELSE 1
         IN  <<(s * n) \div g, (s * d) \div g>>

NaN == <<0, 0>>
Inf == <<1, 0>>
Zero == <<0, 1>>
One == <<1, 1>>

Num(k) == <<k, 1>>

IsNaN(x) == x = NaN
IsFinite(x) == x[2] # 0
IsInf(x) == x[2] = 0 /\ x[1] # 0

FNeg(x) == <<-x[1], x[2]>>

\* IEEE addition: inf + inf of one sign is that infinity, of both signs NaN.
FAdd(x, y) ==
    IF IsNaN(x) \/ IsNaN(y) THEN NaN
    ELSE IF IsInf(x) /\ IsInf(y) THEN (IF x = y THEN x ELSE NaN)
    ELSE Norm(x[1] * y[2] + y[1] * x[2], x[2] * y[2])

FSub(x, y) == FAdd(x, FNeg(y))

\* IEEE multiplication: inf * 0 is NaN.
FMul(x, y) == Norm(x[1] * y[1], x[2] * y[2])

\* 1/x: 1/0 is +inf, 1/inf is 0.
Recip(x) == IF x[1] < 0 THEN <<-x[2], -x[1]>> ELSE <<x[2], x[1]>>

\* IEEE division (numpy float64): x/0 is an infinity or NaN, never an exception.
FDiv(x, y) == FMul(x, Recip(y))

\* x < y; false when either is NaN.
FLess(x, y) ==
    /\ ~IsNaN(x)
    /\ ~IsNaN(y)
    /\ x # y
    /\ IF IsInf(x) \/ IsInf(y)
       THEN (x = FNeg(Inf) \/ y = Inf)
       ELSE x[1] * y[2] < y[1] * x[2]

FLeq(x, y) == ~IsNaN(x) /\ ~IsNaN(y) /\ (x = y \/ FLess(x, y))

FAbs(x) == <<Abs(x[1]), x[2]>>

\* ------------------------------------------------------------- pandas pieces

RECURSIVE SeqSum(_)
SeqSum(s) == IF s = <<>> THEN Zero ELSE FAdd(Head(s), SeqSum(Tail(s)))

NotNaN(x) == ~IsNaN(x)

\* Series.sum(): missing values are skipped (skipna), an empty sum is 0.
series_sum(s) == SeqSum(SelectSeq(s, NotNaN))

\* Series.mean(): the mean of the values present, NaN when there is none.
series_mean(s) ==
    LET v == SelectSeq(s, NotNaN)
    IN  IF Len(v) = 0 THEN NaN ELSE FDiv(SeqSum(v), Num(Len(v)))

\* The sum of squared deviations of v's n values from their mean m, over n - 1.
sample_variance(v, n, m) ==
    FDiv(SeqSum([i \in 1..n |-> FMul(FSub(v[i], m), FSub(v[i], m))]), Num(n - 1))

\* The sample variance of v, which holds no missing value; NaN when it has
\* fewer than two.
var_ddof1(v) ==
    IF Len(v) - 1 <= 0 THEN NaN
    ELSE sample_variance(v, Len(v), FDiv(SeqSum(v), Num(Len(v))))

\* Series.var(ddof=1): the sample variance of the values present.
series_var(s) == var_ddof1(SelectSeq(s, NotNaN))

\* A DataFrame: its column labels, its rows (each a sequence of cells, one per
\* column) and whether every column has a numeric dtype.
NRows(df) == Len(df.rows)
NCols(df) == Len(df.columns)

Column(df, j) == [r \in 1..NRows(df) |-> df.rows[r][j]]

RowHasNaN(row) == \E j \in 1..Len(row) : IsNaN(row[j])
RowComplete(row) == ~RowHasNaN(row)
RowAllNaN(row) == \A j \in 1..Len(row) : IsNaN(row[j])

HasNaN(df) == \E r \in 1..NRows(df) : RowHasNaN(df.rows[r])

\* df.dropna(): the rows without a missing value, in order.
dropna(df) == [df EXCEPT !.rows = SelectSeq(df.rows, RowComplete)]

\* df.fillna(df.mean()): each missing cell becomes its column's mean (it stays
\* missing when the whole column is).
fillna_mean(df) ==
    [df EXCEPT !.rows =
        [r \in 1..NRows(df) |->
            [j \in 1..NCols(df) |->
                IF IsNaN(df.rows[r][j]) THEN series_mean(Column(df, j))
                ELSE df.rows[r][j]]]]

\* s with its k-th element removed.
RemoveAt(s, k) == [i \in 1..(Len(s) - 1) |-> IF i < k THEN s[i] ELSE s[i + 1]]

\* Mutant of drop_column: the column is not dropped.
drop_column_keeps_all(df, k) == df

\* df.drop(columns=col) for the col at position k.
drop_column(df, k) ==
    [df EXCEPT !.columns = RemoveAt(df.columns, k),
               !.rows = [r \in 1..NRows(df) |-> RemoveAt(df.rows[r], k)]]

\* The population variance (ddof=0) of the values present.
series_var_ddof0(s) ==
    FMul(series_var(s), FDiv(Num(Len(SelectSeq(s, NotNaN)) - 1), Num(Len(SelectSeq(s, NotNaN)))))

\* Mutant of item_variances: ddof=0 for the items, ddof=1 kept for the totals.
item_variances_ddof0(df) == [j \in 1..NCols(df) |-> series_var_ddof0(Column(df, j))]

\* df.var(axis=0, ddof=1): one sample variance per column.
item_variances(df) == [j \in 1..NCols(df) |-> series_var(Column(df, j))]

\* df.sum(axis=1): one total per row, missing cells counted as 0.
total_scores(df) == [r \in 1..NRows(df) |-> series_sum(df.rows[r])]

\* ------------------------------------------------------------- validate_data

\* An exception: its class and what its message names.  NoExc: none raised.
NoExc == [exc |-> "none", msg |-> "none"]

Raise(e, m) == [exc |-> e, msg |-> m]

\* Mutant of validate_data: the column check is off by one.
validate_data_cols_off_by_one(df) ==
    IF NRows(df) < 2 THEN Raise("ValueError", "rows")
    ELSE IF NCols(df) < 1 THEN Raise("ValueError", "columns")
    ELSE IF ~df.numeric THEN Raise("TypeError", "numeric")
    ELSE NoExc

\* validate_data(df) with the defaults min_rows = 2, min_cols = 2: the
\* exception it raises, NoExc when it returns.  The warnings it logs change
\* nothing.  The argument is always a DataFrame here.
validate_data(df) ==
    IF NRows(df) < 2 THEN Raise("ValueError", "rows")
    ELSE IF NCols(df) < 2 THEN Raise("ValueError", "columns")
    ELSE IF ~df.numeric THEN Raise("TypeError", "numeric")
    ELSE NoExc

\* ------------------------------------------- calculate_confidence_interval

\* np.arctanh(alpha) by kind: finite inside (-1, 1), infinite at -1 and 1,
\* NaN outside and for NaN.
arctanh_kind(alpha) ==
    IF IsNaN(alpha) THEN "nan"
    ELSE IF alpha = One THEN "inf"
    ELSE IF alpha = FNeg(One) THEN "-inf"
    ELSE IF FLess(FNeg(One), alpha) /\ FLess(alpha, One) THEN "fin"
    ELSE "nan"

\* np.sqrt(x) by kind: NaN for NaN and for a negative x.
sqrt_kind(x) ==
    IF IsNaN(x) THEN "nan"
    ELSE IF x = Zero THEN "zero"
    ELSE IF x = Inf THEN "inf"
    ELSE IF FLess(Zero, x) THEN "pos"
    ELSE "nan"

\* calculate_confidence_interval(alpha, n_items, n_subjects) at the default
\* confidence, for a numpy float64 alpha: <<lower, upper>>, each bound by kind
\* ("open": a number strictly between -1 and 1).  It has no raise statement
\* and float64 arithmetic raises nothing.
calculate_confidence_interval(alpha, n_items, n_subjects) ==
    LET z == arctanh_kind(alpha)
        se == sqrt_kind(FDiv(FMul(Num(2), FSub(One, FMul(alpha, alpha))),
                             Num((n_items - 1) * (n_subjects - 2))))
    IN  IF z = "nan" \/ se = "nan" THEN <<"nan", "nan">>
        ELSE IF z = "fin" THEN (IF se = "inf" THEN <<"-1", "1">> ELSE <<"open", "open">>)
        ELSE IF z = "inf" THEN (IF se = "inf" THEN <<"nan", "1">> ELSE <<"1", "1">>)
        ELSE (IF se = "inf" THEN <<"-1", "nan">> ELSE <<"-1", "-1">>)

\* ------------------------------------------------------------ cronbach_alpha

\* Mutant of item_variances_sum: the last item is left out of the sum.
item_variances_sum_skips_last(df) ==
    series_sum(SubSeq(item_variances(df), 1, NCols(df) - 1))

\* Lines 131 and 136: item_variances.sum(), missing variances skipped.
item_variances_sum(df) == series_sum(item_variances(df))

\* Lines 132-133: the sample variance of the row totals.
var_total(df) == series_var(total_scores(df))

\* Mutant of core_alpha: the N / (N - 1) correction is left out.
core_alpha_uncorrected(df) ==
    FSub(One, FDiv(item_variances_sum(df), var_total(df)))

\* Line 136 for N >= 2 columns:
\*   alpha = (N / (N - 1)) * (1 - item_variances.sum() / var_total)
core_alpha(df) ==
    LET N == NCols(df)
    IN  FMul(FDiv(Num(N), Num(N - 1)),
             FSub(One, FDiv(item_variances_sum(df), var_total(df))))

\* -------------------------------------------------------------------- state

VARIABLES
    call,       \* the top-level call's arguments: [df, handle_missing]
    stack,      \* the active calls of cronbach_alpha, outermost first
    outcome,    \* how the top-level call ended, Running until it has
    phase,      \* 1: the call on the table as given; 2: the repeated call
    first       \* history: the first call's arguments and outcome

vars == <<call, stack, outcome, phase, first>>

Modes == {"pairwise", "listwise", "impute"}

\* Python's limit on nested calls (sys.getrecursionlimit(), 1000 by default),
\* scaled down to stay above every depth the enumerated tables need.
RecursionLimit == MaxCols + 6

Running == [status |-> "running", exc |-> "none", msg |-> "none"]

NoFirst == [phase |-> 0]

\* The frame of a call cronbach_alpha(df, handle_missing=mode) at its first
\* statement.  N, n_subjects, alpha and ci have no value before line 127.
Frame(df, mode) ==
    [df |-> df, handle_missing |-> mode, pc |-> "validate",
     N |-> 0, n_subjects |-> 0, alpha |-> NaN, ci |-> <<"nan", "nan">>,
     col |-> 1, alpha_if_deleted |-> <<>>, exc |-> NoExc]

Depth == Len(stack)
Top == stack[Depth]

SetTop(f) == [stack EXCEPT ![Depth] = f]

\* ------------------------------------------------------------------- inputs

\* The enumerated tables hold dichotomous items, scored 0 or 1.
Scores == {Num(0), Num(1)}

\* A respondent's row: complete, or missing entirely.
RowsOf(c) == [1..c -> Scores] \cup {[j \in 1..c |-> NaN]}

Labels(c) == [j \in 1..c |-> j]

Table(rows, numeric) ==
    [columns |-> Labels(Len(rows[1])), rows |-> rows, numeric |-> numeric]

\* Every table of up to MaxRows rows and MaxCols numeric columns.
NumericTables ==
    UNION {UNION {{Table(rows, TRUE) : rows \in [1..r -> RowsOf(c)]}
                  : c \in 1..MaxCols} : r \in 1..MaxRows}

\* One table of each shape with a column that is not numeric (dtype object).
NonNumericTables ==
    {Table([i \in 1..r |-> [j \in 1..c |-> Zero]], FALSE) :
        r \in 1..MaxRows, c \in 1..MaxCols}

EnumeratedTables == NumericTables \cup NonNumericTables

\* The table whose j-th column is cols[j].
FromColumns(cols) ==
    Table([r \in 1..Len(cols[1]) |-> [j \in 1..Len(cols) |-> Num(cols[j][r])]], TRUE)

\* The sample data of cronbach.py's __main__ block.
SampleData ==
    FromColumns(<< <<4, 3, 5, 2, 4, 5, 3, 2>>,
                   <<3, 4, 2, 5, 3, 4, 4, 3>>,
                   <<5, 4, 3, 4, 5, 3, 4, 4>>,
                   <<2, 3, 4, 3, 4, 4, 3, 5>> >>)

\* The documented example {Item1:[4,3,5,2], Item2:[3,4,2,5], Item3:[5,4,3,4]}:
\* the first four rows of the sample data's first three items.
DocExample ==
    FromColumns(<< <<4, 3, 5, 2>>, <<3, 4, 2, 5>>, <<5, 4, 3, 4>> >>)

\* The 10 x 5 array of examples/example_data.py, given by rows.
ExampleData ==
    Table([r \in 1..10 |-> [j \in 1..5 |->
        Num((<< <<4, 3, 5, 2, 4>>, <<3, 4, 2, 5, 3>>, <<5, 4, 3, 4, 5>>,
                <<2, 5, 4, 3, 2>>, <<4, 3, 5, 2, 4>>, <<3, 4, 2, 5, 3>>,
                <<5, 4, 3, 4, 5>>, <<2, 5, 4, 3, 2>>, <<4, 3, 5, 2, 4>>,
                <<3, 4, 2, 5, 3>> >>)[r][j])]], TRUE)

Tables == EnumeratedTables \cup {SampleData, DocExample, ExampleData}

Calls == [df : Tables, handle_missing : Modes]

\* ------------------------------------------------------------------ actions

\* Line 117: validate_data(df); an exception goes to the except clause.
Validate ==
    /\ Depth > 0
    /\ Top.pc = "validate"
    /\ LET e == validate_data(Top.df)
       IN  stack' = SetTop(IF e = NoExc THEN [Top EXCEPT !.pc = "missing"]
                           ELSE [Top EXCEPT !.pc = "raised", !.exc = e])
    /\ UNCHANGED <<call, outcome, phase, first>>

\* Lines 121-124: the missing-value policy; any other mode changes nothing.
handle_missing_values(df, mode) ==
    IF mode = "listwise" THEN dropna(df)
    ELSE IF mode = "impute" THEN fillna_mean(df)
    ELSE df

HandleMissing ==
    /\ Depth > 0
    /\ Top.pc = "missing"
    /\ stack' = SetTop([Top EXCEPT !.pc = "compute",
                                   !.df = handle_missing_values(Top.df, Top.handle_missing)])
    /\ UNCHANGED <<call, outcome, phase, first>>

\* Lines 127-146: N, n_subjects, alpha, the confidence interval.  N / (N - 1)
\* divides Python ints, so N = 1 raises ZeroDivisionError; everything else is
\* float64 arithmetic and raises nothing.  The item-total correlations of
\* lines 143-146 are not represented: they raise nothing and nothing reads them.
Compute ==
    /\ Depth > 0
    /\ Top.pc = "compute"
    /\ LET N == NCols(Top.df)
           n_subjects == NRows(Top.df)
           alpha == core_alpha(Top.df)
       IN  IF N - 1 = 0
           THEN stack' = SetTop([Top EXCEPT !.pc = "raised", !.N = N,
                                    !.n_subjects = n_subjects,
                                    !.exc = Raise("ZeroDivisionError", "division by zero")])
           ELSE stack' = SetTop([Top EXCEPT !.pc = "deleted", !.N = N,
                                    !.n_subjects = n_subjects, !.alpha = alpha,
                                    !.ci = calculate_confidence_interval(alpha, N, n_subjects),
                                    !.col = 1])
    /\ UNCHANGED <<call, outcome, phase, first>>

\* Lines 148-180: the next column of the alpha-if-deleted comprehension calls
\* cronbach_alpha(df.drop(columns=col)) with the default handle_missing; after
\* the last column the results are built and returned.
DeletedStep ==
    /\ Depth > 0
    /\ Top.pc = "deleted"
    /\ IF Top.col <= NCols(Top.df)
       THEN IF Depth >= RecursionLimit
            THEN stack' = SetTop([Top EXCEPT !.pc = "raised",
                                     !.exc = Raise("RecursionError", "depth")])
            ELSE stack' = Append(stack, Frame(drop_column(Top.df, Top.col), "pairwise"))
       ELSE stack' = SetTop([Top EXCEPT !.pc = "returned"])
    /\ UNCHANGED <<call, outcome, phase, first>>

\* A nested call has ended.  An exception passes through its except clause
\* (lines 182-184: logged, raised again) into the caller's comprehension and so
\* to the caller's except clause.  A returned CronbachResults is subscripted
\* with ['alpha'] (line 150); the dataclass has no __getitem__, so that raises
\* TypeError in the caller.
Unwind ==
    /\ Depth > 1
    /\ Top.pc \in {"raised", "returned"}
    /\ LET caller == stack[Depth - 1]
           e == IF Top.pc = "raised" THEN Top.exc
                ELSE Raise("TypeError", "not subscriptable")
       IN  stack' = [SubSeq(stack, 1, Depth - 1) EXCEPT
                        ![Depth - 1] = [caller EXCEPT !.pc = "raised", !.exc = e]]
    /\ UNCHANGED <<call, outcome, phase, first>>

\* The CronbachResults of a frame that reached line 180.
Results(f) ==
    [alpha |-> f.alpha, alpha_if_deleted |-> f.alpha_if_deleted,
     confidence_interval |-> f.ci, n_items |-> f.N, n_subjects |-> f.n_subjects]

\* The top-level call has ended: its exception (raised again at line 184) or
\* its return value reaches the caller.
Finish ==
    /\ Depth = 1
    /\ Top.pc \in {"raised", "returned"}
    /\ outcome' = IF Top.pc = "raised"
                  THEN [status |-> "raised", exc |-> Top.exc.exc, msg |-> Top.exc.msg]
                  ELSE [status |-> "returned", exc |-> "none", msg |-> "none",
                        results |-> Results(Top)]
    /\ stack' = <<>>
    /\ UNCHANGED <<call, phase, first>>

Init ==
    /\ call \in Calls
    /\ stack = <<Frame(call.df, call.handle_missing)>>
    /\ outcome = Running
    /\ phase = 1
    /\ first = NoFirst

Next == Validate \/ HandleMissing \/ Compute \/ DeletedStep \/ Unwind \/ Finish

Spec == Init /\ [][Next]_vars

Done == Depth = 0 /\ outcome.status # "running"

\* ------------------------------------------------- the listwise comparison

\* The rows of df that are not missing entirely: df with its fully-missing
\* rows physically removed.
remove_missing_rows(df) == [df EXCEPT !.rows = SelectSeq(df.rows, LAMBDA row : ~RowAllNaN(row))]

\* df with a fully-missing row put in at position k.
insert_missing_row(df, k) ==
    [df EXCEPT !.rows =
        [r \in 1..(NRows(df) + 1) |->
            IF r < k THEN df.rows[r]
            ELSE IF r = k THEN [j \in 1..NCols(df) |-> NaN]
            ELSE df.rows[r - 1]]]

MissingRows(df) == {r \in 1..NRows(df) : RowAllNaN(df.rows[r])}

\* Listwise calls on a table with exactly one fully-missing row.
PairCalls ==
    {c \in Calls : c.handle_missing = "listwise" /\ Cardinality(MissingRows(c.df)) = 1}
    \cup {[df |-> insert_missing_row(t, k), handle_missing |-> "listwise"] :
            t \in {DocExample}, k \in 1..(NRows(DocExample) + 1)}

\* The caller repeats the ended call on the table with the missing row removed.
CallAgain ==
    /\ phase = 1
    /\ Depth = 0
    /\ outcome.status # "running"
    /\ first' = [phase |-> 1, call |-> call, outcome |-> outcome]
    /\ call' = [call EXCEPT !.df = remove_missing_rows(call.df)]
    /\ stack' = <<Frame(remove_missing_rows(call.df), call.handle_missing)>>
    /\ outcome' = Running
    /\ phase' = 2

PairInit ==
    /\ call \in PairCalls
    /\ stack = <<Frame(call.df, call.handle_missing)>>
    /\ outcome = Running
    /\ phase = 1
    /\ first = NoFirst

PairNext == Next \/ CallAgain

PairSpec == PairInit /\ [][PairNext]_vars

\* What a caller can tell two ended calls apart by.
SameOutcome(a, b) ==
    /\ a.status = b.status
    /\ a.exc = b.exc
    /\ a.msg = b.msg
    /\ (a.status = "returned" => a.results = b.results)

\* ------------------------------------------------------------------- claims

\* A valid table: numeric, at least 2 rows, no missing value, and a total
\* score that varies.
ValidTable(df) ==
    /\ df.numeric
    /\ NRows(df) >= 2
    /\ ~HasNaN(df)
    /\ FLess(Zero, var_total(df))

\* The frames whose alpha (line 136) has been computed.
WithAlpha == {i \in 1..Depth : stack[i].N >= 2}

\* The top frame has just run lines 127-146.
JustComputed == Depth > 0 /\ Top.pc = "deleted"

\* C1: for every valid table with at least 3 items the call returns a result
\* whose alpha_if_deleted[i] is the core formula's alpha on the table without
\* column i.
C1_AlphaIfDeletedIsCoreAlpha ==
    (Done /\ ValidTable(call.df) /\ NCols(call.df) >= 3) =>
        /\ outcome.status = "returned"
        /\ Len(outcome.results.alpha_if_deleted) = NCols(call.df)
        /\ \A k \in 1..NCols(call.df) :
              outcome.results.alpha_if_deleted[k] = core_alpha(drop_column(call.df, k))

\* C2: on a table of exactly 2 items that passes validation the analysis does
\* not abort: it returns a result that carries the overall alpha.
C2_TwoItemsStillReturn ==
    (Done /\ ValidTable(call.df) /\ NCols(call.df) = 2) =>
        /\ outcome.status = "returned"
        /\ outcome.results.alpha = core_alpha(handle_missing_values(call.df, call.handle_missing))

\* The error classes a table of exactly one row fails validation with.
OneRowErrorKinds == {validate_data(t).exc : t \in {u \in Tables : NRows(u) = 1}}

\* C3 as stated: a table of 1 item (and at least 2 rows) fails with an error
\* kind that no table of 1 row fails with.
C3_DistinctErrorKinds ==
    (Done /\ NCols(call.df) = 1 /\ NRows(call.df) >= 2) =>
        /\ outcome.status = "raised"
        /\ outcome.exc \notin OneRowErrorKinds

\* C3 amended: a table of 1 item fails and a table of 1 row fails, both with
\* ValueError; only the message tells them apart (columns, rows), and the rows
\* message wins when both hold.
C3_SameKindDistinctMessage ==
    /\ (Done /\ NRows(call.df) = 1) =>
            outcome = [status |-> "raised", exc |-> "ValueError", msg |-> "rows"]
    /\ (Done /\ NCols(call.df) = 1 /\ NRows(call.df) >= 2) =>
            outcome = [status |-> "raised", exc |-> "ValueError", msg |-> "columns"]

C3_Witness ==
    /\ Done
    /\ NCols(call.df) = 1
    /\ NRows(call.df) >= 2
    /\ outcome.exc = "ValueError"

\* C4: a call that has passed validation and run the alpha computation on a
\* table (no value missing) whose row totals are all identical has failed with
\* DegenerateDataError.
C4_ZeroTotalVarianceFails ==
    \A i \in 1..Depth :
        (stack[i].pc \in {"deleted", "returned", "raised"}
            /\ validate_data(stack[i].df) = NoExc
            /\ ~HasNaN(call.df)
            /\ var_total(stack[i].df) = Zero) =>
        (stack[i].pc = "raised" /\ stack[i].exc.exc = "DegenerateDataError")

\* C5: calculate_confidence_interval hands back an interval only when
\* n_subjects > 2 and |alpha| < 1.
C5_IntervalOnlyInRange ==
    (JustComputed /\ ~HasNaN(call.df)) =>
        /\ Top.n_subjects > 2
        /\ FLess(FAbs(Top.alpha), One)

C7_ListwiseAsRowRemoved ==
    (phase = 2 /\ Done) => SameOutcome(first.outcome, outcome)

\* C8 as stated: the documented example's alpha is -0.243 to three decimals.
C8_ExampleIsMinus0243 ==
    \A i \in WithAlpha :
        stack[i].df = DocExample =>
            FLess(FAbs(FSub(stack[i].alpha, Norm(-243, 1000))), Norm(1, 2000))

\* C8 amended: the documented example's alpha is -7.5.
C8_ExampleIsMinus7Point5 ==
    \A i \in WithAlpha : stack[i].df = DocExample => stack[i].alpha = Norm(-15, 2)

C8_Witness == JustComputed /\ Top.df = DocExample /\ Depth = 1

\* df with its columns in the order p.
permute_columns(df, p) ==
    [df EXCEPT !.columns = [j \in 1..NCols(df) |-> df.columns[p[j]]],
               !.rows = [r \in 1..NRows(df) |-> [j \in 1..NCols(df) |-> df.rows[r][p[j]]]]]

NestingShape ==
    /\ \A i \in 2..Depth : NCols(stack[i].df) = NCols(stack[i - 1].df) - 1
    /\ Depth <= NCols(call.df)

\* What is left of the top-level call, in steps at most: a call on c columns
\* takes at most 5c + 5 steps, and each call waiting for a nested one has one
\* step left, the one that ends it.
StepsLeft(f) ==
    LET c == NCols(f.df)
    IN  CASE f.pc = "validate" -> 5 * c + 5
          [] f.pc = "missing" -> 5 * c + 4
          [] f.pc = "compute" -> 5 * c + 3
          [] f.pc = "deleted" -> 5 * c + 2
          [] OTHER -> 1

Variant == IF Depth = 0 THEN 0 ELSE (Depth - 1) + StepsLeft(Top)

\* C10: every call ends, with a result or an error: the nesting keeps its
\* shape, every step brings the end nearer, and a call with no frame left has
\* ended.
C10_Terminates ==
    /\ []NestingShape
    /\ [][Variant' < Variant]_vars
    /\ [](Depth = 0 => Done)

C10_Witness == Depth = NCols(call.df) /\ Depth >= 3

====
